---- MODULE Spec2Model ----
(***************************************************************************)
(* Model of nss_lying (src/src/lib.rs): an NSS module that synthesizes     *)
(* passwd and group entries for a configured inclusive UID range.          *)
(*                                                                         *)
(* Strings are sequences of one-character strings.  Option<T> is a record  *)
(* [some |-> FALSE] or [some |-> TRUE, val |-> x].  libnss' Response<T> is  *)
(* [tag |-> "Success", val |-> x] or [tag |-> "NotFound"]; a call that      *)
(* unwinds out of an unwrap() is [tag |-> "Panic"].                         *)
(*                                                                         *)
(* Two specifications:                                                     *)
(*   Spec      the Config methods and the six hooks applied to a Config    *)
(*             drawn from a bounded set (the hooks take the Config they    *)
(*             obtain from config() as a parameter);                       *)
(*   SpecOnce  threads racing through config()'s OnceLock and answering    *)
(*             queries from the Config that load_config() returns.         *)
(***************************************************************************)
EXTENDS Integers, Sequences, FiniteSets, TLC

(***************************************************************************)
(* Bounds                                                                  *)
(***************************************************************************)
\* libc::uid_t / libc::gid_t are unsigned UidBits-bit integers (32 in the
\* build; scaled down to fit TLC's integers, wide enough for the range that
\* load_config() sets; the parse overflow check keeps the width).
UidBits == 16
\* Config.uid_min and Config.uid_max are drawn from 0..MaxUid.
MaxUid == 10
\* Longest free-form text after a name prefix.
MaxSuffixLen == 2
\* Threads racing through config().
NThreads == 2
\* Queries issued in a run of SpecOnce, over all threads.
MaxCalls == 3

RECURSIVE Pow2(_)
Pow2(n) == IF n = 0 THEN 1 ELSE 2 * Pow2(n - 1)

UID_T_MAX == Pow2(UidBits) - 1

(***************************************************************************)
(* Option, Response                                                        *)
(***************************************************************************)
None == [some |-> FALSE]
Some(x) == [some |-> TRUE, val |-> x]

NotFound == [tag |-> "NotFound"]
Success(x) == [tag |-> "Success", val |-> x]
Panic == [tag |-> "Panic"]

\* bool::then / bool::then_some
Then(b, x) == IF b THEN Some(x) ELSE None

\* o.map_or(Response::NotFound, Response::Success)
option_to_response(o) == IF o.some THEN Success(o.val) ELSE NotFound

(***************************************************************************)
(* String helpers: format!("{}", uid), str::strip_prefix, uid_t::from_str  *)
(***************************************************************************)
USER_PREFIX == <<"u", "s", "e", "r", "-">>
USERS == <<"u", "s", "e", "r", "s">>
PASSWD_X == <<"x">>
EMPTY == <<>>
TMP_DIR == <<"/", "t", "m", "p">>

Digits == <<"0", "1", "2", "3", "4", "5", "6", "7", "8", "9">>

IsDigit(ch) == \E i \in 1..10 : Digits[i] = ch
DigitVal(ch) == (CHOOSE i \in 1..10 : Digits[i] = ch) - 1

\* Decimal with the digits emitted least-significant first.
RECURSIVE DecimalReversed(_)
DecimalReversed(n) ==
    IF n < 10 THEN <<Digits[n + 1]>>
    ELSE <<Digits[(n % 10) + 1]>> \o DecimalReversed(n \div 10)

\* Display for an unsigned integer: no sign, no leading zeros, "0" for 0.
RECURSIVE Decimal(_)
Decimal(n) ==
    IF n < 10 THEN <<Digits[n + 1]>>
    ELSE Decimal(n \div 10) \o <<Digits[(n % 10) + 1]>>

\* format!("user-{}", uid)
FormatUser(uid) == USER_PREFIX \o Decimal(uid)

\* name.strip_prefix(p)
strip_prefix(name, p) ==
    IF Len(name) >= Len(p) /\ SubSeq(name, 1, Len(p)) = p
    THEN Some(SubSeq(name, Len(p) + 1, Len(name)))
    ELSE None

\* The digit loop of from_str: checked_mul(10) then checked_add(digit);
\* a non-digit is InvalidDigit, an overflow is PosOverflow (both None here).
RECURSIVE ParseDigits(_, _)
ParseDigits(s, acc) ==
    IF s = <<>> THEN Some(acc)
    ELSE IF ~IsDigit(Head(s)) THEN None
    ELSE IF acc * 10 + DigitVal(Head(s)) > UID_T_MAX THEN None
    ELSE ParseDigits(Tail(s), acc * 10 + DigitVal(Head(s)))

\* <u32 as FromStr>::from_str(s).ok(): empty is an error; a lone "+" or "-"
\* is an error; one leading "+" is accepted and skipped; "-" is not a sign
\* for an unsigned type; leading zeros are digits like any other.
FromStr(s) ==
    IF s = <<>> THEN None
    ELSE IF Len(s) = 1 /\ Head(s) \in {"+", "-"} THEN None
    ELSE IF Head(s) = "+" THEN ParseDigits(Tail(s), 0)
    ELSE ParseDigits(s, 0)

(***************************************************************************)
(* impl Config                                                             *)
(***************************************************************************)
\* self.uid_min..=self.uid_max with the upper bound left out.
uid_range_half_open(self) == self.uid_min .. (self.uid_max - 1)

\* self.uid_min..=self.uid_max, as RangeBounds (contains) ...
uid_range(self) == self.uid_min .. self.uid_max

\* ... and as Iterator: ascending, both ends included.
uid_range_iter(self) ==
    [i \in 1 .. (IF self.uid_max >= self.uid_min
                 THEN self.uid_max - self.uid_min + 1 ELSE 0)
       |-> self.uid_min + i - 1]

name_for_uid(self, uid) ==
    IF uid \in uid_range(self) THEN Some(FormatUser(uid)) ELSE None

\* uid_from_name without the final range check.
uid_from_name_unchecked(self, name) ==
    LET suffix == strip_prefix(name, USER_PREFIX) IN
    IF ~suffix.some THEN None ELSE FromStr(suffix.val)

uid_from_name(self, name) ==
    LET suffix == strip_prefix(name, USER_PREFIX) IN
    IF ~suffix.some THEN None
    ELSE LET uid == FromStr(suffix.val) IN
         IF ~uid.some THEN None
         ELSE Then(uid.val \in uid_range(self), uid.val)

\* gid_for_uid ignoring user_group.
gid_for_uid_own(self, uid) == Then(uid \in uid_range(self), uid)

gid_for_uid(self, uid) ==
    Then(uid \in uid_range(self),
         IF ~self.user_group.some THEN uid ELSE self.user_group.val)

name_for_gid(self, gid) ==
    IF ~self.user_group.some
    THEN name_for_uid(self, gid)
    ELSE Then(gid = self.user_group.val, USERS)

\* gid_from_name that also answers user names when user_group is set.
gid_from_name_fallback(self, name) ==
    IF ~self.user_group.some
    THEN uid_from_name(self, name)
    ELSE IF name = USERS THEN Some(self.user_group.val)
         ELSE uid_from_name(self, name)

gid_from_name(self, name) ==
    IF ~self.user_group.some
    THEN uid_from_name(self, name)
    ELSE Then(name = USERS, self.user_group.val)

uid_to_passwd(self, uid) ==
    LET name == name_for_uid(self, uid)
        gid == gid_for_uid(self, uid) IN
    IF ~name.some THEN None
    ELSE IF ~gid.some THEN None
    ELSE Some([name |-> name.val, passwd |-> PASSWD_X, uid |-> uid,
               gid |-> gid.val, gecos |-> EMPTY, dir |-> TMP_DIR,
               shell |-> self.shell])

gid_to_group(self, gid) ==
    LET name == name_for_gid(self, gid) IN
    IF ~name.some THEN None
    ELSE Some([name |-> name.val, passwd |-> PASSWD_X, gid |-> gid,
               members |-> <<>>])

(***************************************************************************)
(* The hooks, applied to the Config that config() returns                  *)
(***************************************************************************)
\* A Vec collected from unwrap()ped options: one None panics the call.
CollectUnwrapped(items) ==
    IF \E i \in DOMAIN items : ~items[i].some THEN Panic
    ELSE Success([i \in DOMAIN items |-> items[i].val])

\* o.map(|x| f(x).unwrap()) handed to option_to_response
MapUnwrapped(o, inner) ==
    IF ~o.some THEN NotFound
    ELSE IF ~inner.some THEN Panic
    ELSE Success(inner.val)

\* get_all_entries walking the range from the top down.
passwd_get_all_entries_desc(config) ==
    LET ids == uid_range_iter(config) IN
    CollectUnwrapped([i \in DOMAIN ids |->
                        uid_to_passwd(config, ids[Len(ids) + 1 - i])])

passwd_get_all_entries(config) ==
    LET ids == uid_range_iter(config) IN
    CollectUnwrapped([i \in DOMAIN ids |-> uid_to_passwd(config, ids[i])])

passwd_get_entry_by_uid(config, uid) ==
    option_to_response(uid_to_passwd(config, uid))

passwd_get_entry_by_name(config, name) ==
    LET uid == uid_from_name(config, name) IN
    MapUnwrapped(uid, IF uid.some THEN uid_to_passwd(config, uid.val) ELSE None)

\* get_all_entries that lists one group per user whatever the mode.
group_get_all_entries_per_user(config) ==
    LET ids == uid_range_iter(config) IN
    CollectUnwrapped([i \in DOMAIN ids |-> gid_to_group(config, ids[i])])

group_get_all_entries(config) ==
    IF ~config.user_group.some
    THEN LET ids == uid_range_iter(config) IN
         CollectUnwrapped([i \in DOMAIN ids |-> gid_to_group(config, ids[i])])
    ELSE CollectUnwrapped(<<gid_to_group(config, config.user_group.val)>>)

group_get_entry_by_gid(config, gid) ==
    option_to_response(gid_to_group(config, gid))

group_get_entry_by_name(config, name) ==
    LET gid == gid_from_name(config, name) IN
    MapUnwrapped(gid, IF gid.some THEN gid_to_group(config, gid.val) ELSE None)

(***************************************************************************)
(* load_config and the OnceLock behind config()                            *)
(***************************************************************************)
load_config ==
    [uid_min |-> 1000, uid_max |-> 9999, user_group |-> None,
     shell |-> "/bin/bash"]

\* Once::call_once_force runs the closure whenever no initialization has
\* completed, a running one included.
CanBeginInitRacy(st) == st # "Complete"

\* Once::call_once_force runs the closure only from the Incomplete state
\* (the compare-exchange Incomplete -> Running).
CanBeginInit(st) == st = "Incomplete"

(***************************************************************************)
(* Inputs                                                                  *)
(***************************************************************************)
Shells == {"/bin/bash", "/bin/sh"}
GroupIds == {1, MaxUid + 1}

Configs ==
    {[uid_min |-> lo, uid_max |-> hi, user_group |-> g, shell |-> sh] :
        lo \in 0 .. MaxUid, hi \in 0 .. MaxUid,
        g \in {None} \cup {Some(x) : x \in GroupIds}, sh \in Shells}

ValidConfigs == {c \in Configs : c.uid_min <= c.uid_max}

IdInputs == (0 .. (MaxUid + 2)) \cup {UID_T_MAX}

SuffixChars == {"0", "1", "+", "-", "a"}
Suffixes == UNION {[1 .. n -> SuffixChars] : n \in 0 .. MaxSuffixLen}

NameInputs ==
    {USER_PREFIX \o s : s \in Suffixes}
    \cup {FormatUser(u) : u \in 0 .. (MaxUid + 1)}
    \cup {FormatUser(UID_T_MAX), USER_PREFIX \o Decimal(UID_T_MAX + 1)}
    \cup {USERS, EMPTY,
          <<"u", "s", "e", "r">>,
          <<"u", "s", "e", "r", "x", "-", "5">>,
          <<"u", "s", "e", "r", "-", "a", "b", "c">>,
          <<"u", "s", "e", "r", "s", "-", "1">>,
          <<"U", "s", "e", "r", "-", "1">>,
          <<" ", "u", "s", "e", "r", "-", "1">>,
          <<"u", "s", "e", "r", "-", " ", "1">>,
          <<"u", "s", "e", "r", "-", "1", " ">>,
          <<"x", "u", "s", "e", "r", "-", "1">>}

Threads == 1 .. NThreads

\* Queries the threads of SpecOnce issue against the loaded Config (the
\* lookups; the enumerations are exercised under Spec).
OnceQueries ==
    {[hook |-> "passwd_get_entry_by_uid", arg |-> 999],
     [hook |-> "passwd_get_entry_by_uid", arg |-> 1000],
     [hook |-> "passwd_get_entry_by_name", arg |-> FormatUser(9999)],
     [hook |-> "group_get_entry_by_gid", arg |-> 10000],
     [hook |-> "group_get_entry_by_name", arg |-> FormatUser(1000)],
     [hook |-> "group_get_entry_by_name", arg |-> USERS]}

HookResponse(config, q) ==
    CASE q.hook = "passwd_get_entry_by_uid" ->
            passwd_get_entry_by_uid(config, q.arg)
      [] q.hook = "passwd_get_entry_by_name" ->
            passwd_get_entry_by_name(config, q.arg)
      [] q.hook = "group_get_entry_by_gid" ->
            group_get_entry_by_gid(config, q.arg)
      [] q.hook = "group_get_entry_by_name" ->
            group_get_entry_by_name(config, q.arg)

(***************************************************************************)
(* State                                                                   *)
(***************************************************************************)
VARIABLES
    cfg,     \* Spec: the Config the methods and hooks are applied to
    call,    \* Spec: the last call, [fn, arg, ret]
    once,    \* INSTANCE's Once: "Incomplete", "Running" or "Complete"
    slot,    \* INSTANCE's value: None until written
    loads,   \* how many times load_config() ran to completion
    pc,      \* per thread: where it is inside a hook
    query,   \* per thread: the query it is answering
    seen,    \* per thread: the &'static Config that config() returned
    resp,    \* per thread: the last answer it returned
    ncalls   \* queries issued so far

vars == <<cfg, call, once, slot, loads, pc, query, seen, resp, ncalls>>
onceVars == <<once, slot, loads, pc, query, seen, resp, ncalls>>

NoCall == [fn |-> "none"]
NoQuery == [hook |-> "none"]
NoResp == [tag |-> "none"]

OnceInit ==
    /\ once = "Incomplete"
    /\ slot = None
    /\ loads = 0
    /\ pc = [t \in Threads |-> "idle"]
    /\ query = [t \in Threads |-> NoQuery]
    /\ seen = [t \in Threads |-> None]
    /\ resp = [t \in Threads |-> NoResp]
    /\ ncalls = 0

(***************************************************************************)
(* Spec: the Config methods and the hooks on a Config from ValidConfigs    *)
(***************************************************************************)
Init ==
    /\ cfg \in ValidConfigs
    /\ call = NoCall
    /\ OnceInit

\* The methods and hooks keep no state between calls: a behaviour of Spec is
\* one call on one Config.
Record(fn, arg, ret) ==
    /\ call = NoCall
    /\ call' = [fn |-> fn, arg |-> arg, ret |-> ret]
    /\ UNCHANGED cfg
    /\ UNCHANGED onceVars

NameForUid ==
    \E uid \in IdInputs : Record("name_for_uid", uid, name_for_uid(cfg, uid))

UidFromName ==
    \E name \in NameInputs :
        Record("uid_from_name", name, uid_from_name(cfg, name))

GidForUid ==
    \E uid \in IdInputs : Record("gid_for_uid", uid, gid_for_uid(cfg, uid))

NameForGid ==
    \E gid \in IdInputs : Record("name_for_gid", gid, name_for_gid(cfg, gid))

GidFromName ==
    \E name \in NameInputs :
        Record("gid_from_name", name, gid_from_name(cfg, name))

PasswdGetAllEntries ==
    Record("passwd_get_all_entries", 0, passwd_get_all_entries(cfg))

PasswdGetEntryByUid ==
    \E uid \in IdInputs :
        Record("passwd_get_entry_by_uid", uid, passwd_get_entry_by_uid(cfg, uid))

PasswdGetEntryByName ==
    \E name \in NameInputs :
        Record("passwd_get_entry_by_name", name,
               passwd_get_entry_by_name(cfg, name))

GroupGetAllEntries ==
    Record("group_get_all_entries", 0, group_get_all_entries(cfg))

GroupGetEntryByGid ==
    \E gid \in IdInputs :
        Record("group_get_entry_by_gid", gid, group_get_entry_by_gid(cfg, gid))

GroupGetEntryByName ==
    \E name \in NameInputs :
        Record("group_get_entry_by_name", name,
               group_get_entry_by_name(cfg, name))

Next ==
    \/ NameForUid
    \/ UidFromName
    \/ GidForUid
    \/ NameForGid
    \/ GidFromName
    \/ PasswdGetAllEntries
    \/ PasswdGetEntryByUid
    \/ PasswdGetEntryByName
    \/ GroupGetAllEntries
    \/ GroupGetEntryByGid
    \/ GroupGetEntryByName

Spec == Init /\ [][Next]_vars

(***************************************************************************)
(* SpecOnce: threads entering hooks, each starting with config()           *)
(***************************************************************************)
InitOnce ==
    /\ cfg = load_config
    /\ call = NoCall
    /\ OnceInit

\* The host calls a hook on thread t.
Enter(t) ==
    /\ pc[t] = "idle"
    /\ ncalls < MaxCalls
    /\ \E q \in OnceQueries : query' = [query EXCEPT ![t] = q]
    /\ ncalls' = ncalls + 1
    /\ pc' = [pc EXCEPT ![t] = "get"]
    /\ seen' = [seen EXCEPT ![t] = None]
    /\ UNCHANGED <<cfg, call, once, slot, loads, resp>>

\* get_or_init: self.get() finds the cell initialized.
GetInitialized(t) ==
    /\ pc[t] = "get"
    /\ once = "Complete"
    /\ seen' = [seen EXCEPT ![t] = slot]
    /\ pc' = [pc EXCEPT ![t] = "run"]
    /\ UNCHANGED <<cfg, call, once, slot, loads, query, resp, ncalls>>

\* get_or_init: self.get() is None, go on to initialize().
GetUninitialized(t) ==
    /\ pc[t] = "get"
    /\ once # "Complete"
    /\ pc' = [pc EXCEPT ![t] = "call_once"]
    /\ UNCHANGED <<cfg, call, once, slot, loads, query, seen, resp, ncalls>>

\* initialize(): this thread wins the Once and will run the closure.
\* A thread that finds the Once Running stays here until it completes.
BeginInit(t) ==
    /\ pc[t] = "call_once"
    /\ CanBeginInit(once)
    /\ once' = "Running"
    /\ pc' = [pc EXCEPT ![t] = "init"]
    /\ UNCHANGED <<cfg, call, slot, loads, query, seen, resp, ncalls>>

\* initialize(): the Once completed meanwhile, the closure is not run.
CallOnceCompleted(t) ==
    /\ pc[t] = "call_once"
    /\ once = "Complete"
    /\ pc' = [pc EXCEPT ![t] = "read"]
    /\ UNCHANGED <<cfg, call, once, slot, loads, query, seen, resp, ncalls>>

\* The closure: load_config().unwrap(), written into the cell.
RunLoadConfig(t) ==
    /\ pc[t] = "init"
    /\ slot' = Some(load_config)
    /\ loads' = loads + 1
    /\ pc' = [pc EXCEPT ![t] = "finish"]
    /\ UNCHANGED <<cfg, call, once, query, seen, resp, ncalls>>

\* The Once is marked complete and the waiters are released.
FinishInit(t) ==
    /\ pc[t] = "finish"
    /\ once' = "Complete"
    /\ pc' = [pc EXCEPT ![t] = "read"]
    /\ UNCHANGED <<cfg, call, slot, loads, query, seen, resp, ncalls>>

\* get_or_init returns self.get_unchecked().
ReadValue(t) ==
    /\ pc[t] = "read"
    /\ seen' = [seen EXCEPT ![t] = slot]
    /\ pc' = [pc EXCEPT ![t] = "run"]
    /\ UNCHANGED <<cfg, call, once, slot, loads, query, resp, ncalls>>

\* The rest of the hook, on the Config it was handed.
Answer(t) ==
    /\ pc[t] = "run"
    /\ seen[t].some
    /\ resp' = [resp EXCEPT ![t] = HookResponse(seen[t].val, query[t])]
    /\ pc' = [pc EXCEPT ![t] = "idle"]
    /\ UNCHANGED <<cfg, call, once, slot, loads, query, seen, ncalls>>

NextOnce ==
    \E t \in Threads :
        \/ Enter(t)
        \/ GetInitialized(t)
        \/ GetUninitialized(t)
        \/ BeginInit(t)
        \/ CallOnceCompleted(t)
        \/ RunLoadConfig(t)
        \/ FinishInit(t)
        \/ ReadValue(t)
        \/ Answer(t)

SpecOnce == InitOnce /\ [][NextOnce]_vars

(***************************************************************************)
(* Properties                                                              *)
(***************************************************************************)
InRange(c, id) == c.uid_min <= id /\ id <= c.uid_max
Shared == cfg.user_group.some
HookNames ==
    {"passwd_get_all_entries", "passwd_get_entry_by_uid",
     "passwd_get_entry_by_name", "group_get_all_entries",
     "group_get_entry_by_gid", "group_get_entry_by_name"}

\* C1: for every uid in [uid_min, uid_max], name_for_uid(uid) is present and
\* uid_from_name of that name is exactly uid.
C1_RoundTrip ==
    (call.fn = "name_for_uid" /\ InRange(cfg, call.arg)) =>
        /\ call.ret.some
        /\ uid_from_name(cfg, call.ret.val) = Some(call.arg)

\* C1 witness: an in-range two-digit uid was named and parsed back.
C1_Witness ==
    /\ call.fn = "name_for_uid"
    /\ InRange(cfg, call.arg)
    /\ call.arg >= 10
    /\ call.ret.some
    /\ uid_from_name(cfg, call.ret.val) = Some(call.arg)

\* C2 (as claimed): uid_from_name yields an id only for a string that is
\* exactly name_for_uid's output for some in-range id; a sign, or a number
\* written differently from the canonical form, is absent.
C2_OnlyCanonicalNames ==
    (call.fn = "uid_from_name" /\ call.ret.some) =>
        \E id \in cfg.uid_min .. cfg.uid_max : call.arg = FormatUser(id)

\* C3: passwd_get_entry_by_uid(id) is a record iff uid_min <= id <= uid_max;
\* the record has name "user-<id>", password "x", uid id, the configured
\* shell, and gid id (user_group unset) or user_group (set).
C3_LookupUserById ==
    call.fn = "passwd_get_entry_by_uid" =>
        IF InRange(cfg, call.arg)
        THEN /\ call.ret.tag = "Success"
             /\ call.ret.val.name = USER_PREFIX \o Decimal(call.arg)
             /\ call.ret.val.passwd = <<"x">>
             /\ call.ret.val.uid = call.arg
             /\ call.ret.val.shell = cfg.shell
             /\ call.ret.val.gid =
                    (IF Shared THEN cfg.user_group.val ELSE call.arg)
        ELSE call.ret = NotFound

\* C3 witness: the upper bound itself resolved, in shared-group mode.
C3_Witness ==
    /\ call.fn = "passwd_get_entry_by_uid"
    /\ call.arg = cfg.uid_max
    /\ cfg.uid_min < cfg.uid_max
    /\ Shared
    /\ call.ret.tag = "Success"
    /\ call.ret.val.gid = cfg.user_group.val

\* C4: with user_group = G, gid_from_name is G for "users" and absent for
\* every other name, and name_for_gid is "users" iff gid = G; with
\* user_group unset both equal the uid functions ("users" absent,
\* "user-<id>" maps to id in range).  gid_from_name inverts name_for_gid.
C4_GroupNameMapping ==
    /\ call.fn = "gid_from_name" =>
         IF Shared
         THEN call.ret = (IF call.arg = USERS
                          THEN Some(cfg.user_group.val) ELSE None)
         ELSE /\ call.ret = uid_from_name(cfg, call.arg)
              /\ call.arg = USERS => call.ret = None
              /\ \A id \in cfg.uid_min .. cfg.uid_max :
                    call.arg = FormatUser(id) => call.ret = Some(id)
    /\ call.fn = "name_for_gid" =>
         /\ IF Shared
            THEN call.ret = (IF call.arg = cfg.user_group.val
                             THEN Some(USERS) ELSE None)
            ELSE call.ret = name_for_uid(cfg, call.arg)
         /\ call.ret.some => gid_from_name(cfg, call.ret.val) = Some(call.arg)

\* C4 witness: in shared-group mode the name of an in-range user was
\* looked up as a group and was absent.
C4_Witness ==
    /\ call.fn = "gid_from_name"
    /\ Shared
    /\ \E id \in cfg.uid_min .. cfg.uid_max : call.arg = FormatUser(id)
    /\ call.ret = None

\* C5: every hook returns Success or NotFound and never panics: an id that
\* uid_from_name yields has a passwd record, a gid that gid_from_name
\* yields has a group record.
C5_NoPanic ==
    /\ call.fn \in HookNames => call.ret.tag \in {"Success", "NotFound"}
    /\ (call.fn = "uid_from_name" /\ call.ret.some) =>
            uid_to_passwd(cfg, call.ret.val).some
    /\ (call.fn = "gid_from_name" /\ call.ret.some) =>
            gid_to_group(cfg, call.ret.val).some
    /\ (call.fn \in {"passwd_get_entry_by_uid", "passwd_get_entry_by_name"}
          /\ call.ret.tag = "Success") =>
            /\ DOMAIN call.ret.val =
                 {"name", "passwd", "uid", "gid", "gecos", "dir", "shell"}
            /\ call.ret.val.name # <<>>
    /\ (call.fn \in {"group_get_entry_by_gid", "group_get_entry_by_name"}
          /\ call.ret.tag = "Success") =>
            /\ DOMAIN call.ret.val = {"name", "passwd", "gid", "members"}
            /\ call.ret.val.name # <<>>

\* C5 witness: a lookup by name reached its unwrap and returned a record.
C5_Witness ==
    /\ call.fn = "passwd_get_entry_by_name"
    /\ call.ret.tag = "Success"
    /\ call.ret.val.uid \in cfg.uid_min .. cfg.uid_max

\* C6: passwd_get_all_entries returns uid_max - uid_min + 1 records, one per
\* id of the range in ascending order, each the record of that id, in both
\* modes.
C6_ListAllUsers ==
    call.fn = "passwd_get_all_entries" =>
        /\ call.ret.tag = "Success"
        /\ Len(call.ret.val) = cfg.uid_max - cfg.uid_min + 1
        /\ \A i \in 1 .. Len(call.ret.val) :
              /\ call.ret.val[i].uid = cfg.uid_min + i - 1
              /\ Some(call.ret.val[i]) = uid_to_passwd(cfg, cfg.uid_min + i - 1)

\* C6 witness: a range of several ids was enumerated in shared-group mode.
C6_Witness ==
    /\ call.fn = "passwd_get_all_entries"
    /\ Shared
    /\ call.ret.tag = "Success"
    /\ Len(call.ret.val) >= 3
    /\ call.ret.val[1].uid = cfg.uid_min
    /\ call.ret.val[Len(call.ret.val)].uid = cfg.uid_max

\* C7: group_get_all_entries returns one group per id of the range in
\* ascending order (as many as there are users) when user_group is unset,
\* and exactly the one group (G, "users") when user_group = G, inside the
\* range or not.
C7_ListAllGroups ==
    call.fn = "group_get_all_entries" =>
        IF Shared
        THEN call.ret = Success(<<[name |-> USERS, passwd |-> <<"x">>,
                                   gid |-> cfg.user_group.val,
                                   members |-> <<>>]>>)
        ELSE /\ call.ret.tag = "Success"
             /\ Len(call.ret.val) = cfg.uid_max - cfg.uid_min + 1
             /\ Len(call.ret.val) = Len(passwd_get_all_entries(cfg).val)
             /\ \A i \in 1 .. Len(call.ret.val) :
                   /\ call.ret.val[i].gid = cfg.uid_min + i - 1
                   /\ call.ret.val[i].name = FormatUser(cfg.uid_min + i - 1)

\* C7 witness: the shared group lies outside the uid range and is the one
\* element listed.
C7_Witness ==
    /\ call.fn = "group_get_all_entries"
    /\ Shared
    /\ ~InRange(cfg, cfg.user_group.val)
    /\ call.ret.tag = "Success"
    /\ Len(call.ret.val) = 1
    /\ call.ret.val[1].gid = cfg.user_group.val

\* The group gid resolves by id to a group with that gid, whose name
\* resolves back to the same gid.
GroupResolves(gid) ==
    LET g == group_get_entry_by_gid(cfg, gid) IN
    /\ g.tag = "Success"
    /\ g.val.gid = gid
    /\ LET n == group_get_entry_by_name(cfg, g.val.name) IN
       /\ n.tag = "Success"
       /\ n.val.gid = gid

\* C10: the primary gid of every user record returned by
\* passwd_get_entry_by_uid or passwd_get_all_entries resolves to a group
\* with that gid, by id and then by that group's name.
C10_ReferentialIntegrity ==
    /\ (call.fn = "passwd_get_entry_by_uid" /\ call.ret.tag = "Success") =>
            GroupResolves(call.ret.val.gid)
    /\ (call.fn = "passwd_get_all_entries" /\ call.ret.tag = "Success") =>
            \A i \in 1 .. Len(call.ret.val) :
                GroupResolves(call.ret.val[i].gid)

\* C10 witness: a user whose primary group is a shared group outside the
\* uid range.
C10_Witness ==
    /\ call.fn = "passwd_get_entry_by_uid"
    /\ call.ret.tag = "Success"
    /\ Shared
    /\ ~InRange(cfg, call.ret.val.gid)
    /\ GroupResolves(call.ret.val.gid)

\* What every state of SpecOnce satisfies if initialization is single.
SingleInit ==
    /\ loads <= 1
    /\ once = "Complete" => (loads = 1 /\ slot = Some(load_config))
    /\ \A t \in Threads :
          /\ pc[t] = "run" => seen[t].some
          /\ seen[t].some => (loads = 1 /\ seen[t] = slot)
    /\ \A t1, t2 \in Threads :
          (seen[t1].some /\ seen[t2].some) => seen[t1] = seen[t2]

\* C8: when queries race to initialize the Config, load_config runs to
\* completion exactly once, every caller observes the same Config, and the
\* stored value is never modified afterwards.
C8_SingleInitialization ==
    /\ []SingleInit
    /\ [][slot.some => slot' = slot]_vars

\* C8 witness: one thread has just completed the initialization while
\* another, which had found the cell uninitialized, is about to call the
\* Once.
C8_Witness ==
    \E t1, t2 \in Threads :
        /\ t1 # t2
        /\ pc[t1] = "read"
        /\ pc[t2] = "call_once"
        /\ once = "Complete"
        /\ loads = 1

====
